---- MODULE Spec2Model ----
(***************************************************************************)
(* Model of examples/inspect-all-oci-images.py: the reference normalizer,  *)
(* the result store (load / merge / save), the resume filter, the          *)
(* single-image inspection task with its search fallback, and the          *)
(* dispatcher with its delay loop and checkpoints.                         *)
(*                                                                         *)
(* Image references are sequences of text chunks.  The chunks are chosen   *)
(* so that every occurrence of one of the three patterns the code looks    *)
(* for ("docker://", "docker.io/", "library/") in the concatenated text is *)
(* an occurrence of the corresponding chunk sequence, and so that chunk-   *)
(* wise lexicographic order is Python's string order (all chunks start     *)
(* with different characters).                                             *)
(***************************************************************************)
EXTENDS Integers, Sequences, FiniteSets, TLC

\* ------------------------------------------------------------------ bounds
\* Longest reference (in chunks) given to the normalizer on its own.
MaxRefLen == 4
\* Longest list of new results merged by one save of the store on its own.
MaxNew == 1
\* Number of saves of the store on its own.
MaxSaves == 3
\* Deepest nesting of inspect_oci_image calls the model follows.
MaxDepth == 3
\* Most candidate references of one program run.
MaxItems == 2
\* Most worker threads (--max-workers).
MaxWorkers == 2
\* Seconds the clock advances in one step, and the last instant followed.
TimeStep == 15
MaxTime == 45
\* Program runs followed one after the other.
MaxRuns == 2

\* ------------------------------------------------------------------ text
Chunks == {"docker", "://", ".io/", "library", "/", "nginx"}

\* ASCII order of the chunks' first characters: . / : d l n
ChunkRank(c) ==
  CASE c = ".io/"    -> 1
    [] c = "/"       -> 2
    [] c = "://"     -> 3
    [] c = "alpine"  -> 4
    [] c = "docker"  -> 5
    [] c = "library" -> 6
    [] c = "nginx"   -> 7
    [] OTHER         -> 8

SchemeToken     == <<"docker", "://">>
RegistryPrefix  == <<"docker", ".io/">>
NamespacePrefix == <<"library", "/">>

StartsWith(s, pat) ==
  /\ Len(s) >= Len(pat)
  /\ SubSeq(s, 1, Len(pat)) = pat

\* str.replace(pat, ''): every non-overlapping occurrence, left to right.
RECURSIVE ReplaceAll(_, _)
ReplaceAll(s, pat) ==
  IF Len(s) < Len(pat) THEN s
  ELSE IF StartsWith(s, pat)
       THEN ReplaceAll(SubSeq(s, Len(pat) + 1, Len(s)), pat)
       ELSE <<Head(s)>> \o ReplaceAll(Tail(s), pat)

\* Mutant of Normalize: the default-namespace prefix is never collapsed.
NormalizeKeepNamespace(ref) ==
  ReplaceAll(ReplaceAll(ref, SchemeToken), RegistryPrefix)

\* original_ref.replace('docker://', '').replace('docker.io/', ''), then
\* one leading 'library/' removed (replace(..., 1) after startswith).
Normalize(ref) ==
  LET s == ReplaceAll(ReplaceAll(ref, SchemeToken), RegistryPrefix)
  IN  IF StartsWith(s, NamespacePrefix)
      THEN SubSeq(s, Len(NamespacePrefix) + 1, Len(s))
      ELSE s

\* '/' in image_ref
HasSlash(ref) == \E i \in 1..Len(ref) : ref[i] \in {"://", ".io/", "/"}

RECURSIVE SeqsUpTo(_, _)
SeqsUpTo(S, n) ==
  IF n = 0 THEN {<<>>}
  ELSE LET shorter == SeqsUpTo(S, n - 1)
       IN  shorter \cup {Append(s, c) : s \in {t \in shorter : Len(t) = n - 1}, c \in S}

RefStrings == SeqsUpTo(Chunks, MaxRefLen)

\* ------------------------------------------------------------ outcomes
\* An outcome object: ref is its '_original_image_ref' (<<>> when absent),
\* err its '_error' ("none" when the key is absent), found its
\* '_found_image_ref' (<<>> when absent), msg the patterns its
\* '_error_message' contains.
Outcome(ref, err, found, msg) ==
  [ref |-> ref, err |-> err, found |-> found, msg |-> msg]

Success(ref) == Outcome(ref, "none", <<>>, {})

Failure(ref, kind, msg) == Outcome(ref, kind, <<>>, msg)

\* '_error' in result
HasError(o) == o.err # "none"

\* What dict.get returns for a missing key (None).
NoOutcome == Outcome(<<>>, "absent", <<>>, {})

\* --------------------------------------------------------- result store
\* A Python dict from reference text to outcome: a sequence of <<key,
\* value>> entries in insertion order; assigning to a key that is present
\* keeps its position.
DictHas(d, k) == \E i \in 1..Len(d) : d[i].k = k

DictGet(d, k) ==
  IF DictHas(d, k)
  THEN d[CHOOSE i \in 1..Len(d) : d[i].k = k].v
  ELSE NoOutcome

DictPut(d, k, v) ==
  IF DictHas(d, k)
  THEN [i \in 1..Len(d) |-> IF d[i].k = k THEN [k |-> k, v |-> v] ELSE d[i]]
  ELSE Append(d, [k |-> k, v |-> v])

\* list(d.values())
DictValues(d) == [i \in 1..Len(d) |-> d[i].v]

\* Mutant of PutOutcome: the outcome is stored under its raw reference only.
PutOutcomeRawOnly(d, o) ==
  IF o.ref # <<>> THEN DictPut(d, o.ref, o) ELSE d

\* lookup[normalized_ref] = result; lookup[original_ref] = result
PutOutcome(d, o) ==
  IF o.ref # <<>>
  THEN DictPut(DictPut(d, Normalize(o.ref), o), o.ref, o)
  ELSE d

\* The merge loop: new results overwrite existing ones, in list order.
RECURSIVE MergeResults(_, _)
MergeResults(d, new) ==
  IF new = <<>> THEN d
  ELSE MergeResults(PutOutcome(d, Head(new)), Tail(new))

\* load_existing_results: {} for a missing file and for a file that does
\* not parse (state "writing": truncated or partly written).
LoadExisting(state, data) ==
  IF state = "ok" THEN MergeResults(<<>>, data) ELSE <<>>

\* existing_results.get(normalized_ref) or existing_results.get(image_ref)
Lookup(d, ref) ==
  IF DictHas(d, Normalize(ref)) THEN DictGet(d, Normalize(ref))
  ELSE DictGet(d, ref)

\* merged_results of save_results_incremental: what is written to the file.
MergedResults(state, data, new) ==
  DictValues(MergeResults(LoadExisting(state, data), new))

\* ---------------------------------------------------------- resume filter
FilterAcc(toInspect, ok, failed, retrying) ==
  [toInspect |-> toInspect, skippedOk |-> ok,
   skippedFailed |-> failed, retrying |-> retrying]

RECURSIVE FilterFrom(_, _, _, _)
FilterFrom(all, existing, retry, acc) ==
  IF all = <<>> THEN acc
  ELSE LET ref == Head(all)
           ex  == Lookup(existing, ref)
           nxt == IF ex # NoOutcome
                  THEN IF HasError(ex)
                       THEN IF retry
                            THEN [acc EXCEPT !.toInspect = Append(@, ref),
                                             !.retrying = @ + 1]
                            ELSE [acc EXCEPT !.skippedFailed = @ + 1]
                       ELSE [acc EXCEPT !.skippedOk = @ + 1]
                  ELSE [acc EXCEPT !.toInspect = Append(@, ref)]
       IN  FilterFrom(Tail(all), existing, retry, nxt)

\* Mutant of FilterImages: previously failed images are always retried.
FilterImagesRetryAlways(all, existing, retry) ==
  FilterFrom(all, existing, TRUE, FilterAcc(<<>>, 0, 0, 0))

\* filter_images_to_inspect(all_images, existing_results, retry_failed)
FilterImages(all, existing, retry) ==
  FilterFrom(all, existing, retry, FilterAcc(<<>>, 0, 0, 0))

\* ------------------------------------------------------------- candidates
\* Python's string order on references.
RECURSIVE RefLess(_, _)
RefLess(a, b) ==
  IF a = <<>> THEN b # <<>>
  ELSE IF b = <<>> THEN FALSE
  ELSE IF Head(a) = Head(b) THEN RefLess(Tail(a), Tail(b))
  ELSE ChunkRank(Head(a)) < ChunkRank(Head(b))

\* References of the document: two spellings of one image, and another.
CandidateRefs == {<<"alpine">>, <<"docker", ".io/", "nginx">>, <<"nginx">>}

\* sorted(list(oci_images)): unique, in string order, not empty.
CandidateLists ==
  {c \in SeqsUpTo(CandidateRefs, MaxItems) :
     /\ c # <<>>
     /\ \A i \in 1..(Len(c) - 1) : RefLess(c[i], c[i + 1])}

\* checkpoint_interval = 30  (seconds)
checkpoint_interval == 30

\* --delay-between-requests values followed (seconds).
DelayChoices == {0, 30}

\* What the inspection of one submitted reference returns to the dispatcher.
DispatchOutcomes(ref) ==
  {Success(ref), Failure(ref, "inspection_failed", {})}

\* The output file before the first run: missing, or left by an earlier run.
InitialFiles ==
  {[state |-> "missing", data |-> <<>>],
   [state |-> "ok", data |-> <<Failure(<<"nginx">>, "timeout", {})>>]}

Config(no, retry, noResume, skipErrors, workers, delay) ==
  [no |-> no, retry |-> retry, noResume |-> noResume,
   skipErrors |-> skipErrors, workers |-> workers, delay |-> delay]

\* No instant yet.
NoTime == -1

NoConfig == Config(0, FALSE, FALSE, FALSE, 1, 0)

QueuedTask == [st |-> "queued", res |-> NoOutcome, doneAt |-> NoTime]

VARIABLES nIn, nOut, nPc,
          fileState, fileData,
          sStore, sPrev, sNew, sSaves,
          tFrames, tPc, tRet, tResult, tTrace,
          cands, cfg, pc, existing, images, results, task, doneQueue, cur,
          now, lastRequest, lastCheckpoint, saveData, saveRet, lastStart,
          fileOld, recorded, fileBefore,
          qAll, qStore, qRetry, qOut, qPc

nvars == <<nIn, nOut, nPc>>
fvars == <<fileState, fileData>>
svars == <<sStore, sPrev, sNew, sSaves>>
tvars == <<tFrames, tPc, tRet, tResult, tTrace>>
\* The program run: the main thread, the pool's tasks and the clock.
mvars == <<cfg, pc, existing, images, results, cur, lastRequest,
           lastCheckpoint, saveData, saveRet>>
pvars == <<task, doneQueue>>
\* History: the instant of the latest start of an inspection, the file
\* before the save in progress, each reference's most recently recorded
\* outcome, and the file as the previous run left it.
hvars == <<lastStart, fileOld, recorded, fileBefore>>
\* The resume filter on its own: its arguments and its return value.
qvars == <<qAll, qStore, qRetry, qOut, qPc>>
dvars == <<cands, mvars, pvars, now, hvars, qvars>>
vars == <<nvars, fvars, svars, tvars, dvars>>

NormIdle == nIn = <<>> /\ nOut = <<>> /\ nPc = "off"
FileIdle == fileState = "missing" /\ fileData = <<>>
StoreIdle == sStore = <<>> /\ sPrev = <<>> /\ sNew = <<>> /\ sSaves = 0
DispatchIdle ==
  /\ cands = <<>>
  /\ cfg = NoConfig
  /\ pc = "off"
  /\ existing = <<>>
  /\ images = <<>>
  /\ results = <<>>
  /\ task = <<>>
  /\ doneQueue = <<>>
  /\ cur = 0
  /\ now = 0
  /\ lastRequest = 0
  /\ lastCheckpoint = 0
  /\ saveData = <<>>
  /\ saveRet = "none"
  /\ lastStart = NoTime
  /\ fileOld = [state |-> "missing", data |-> <<>>]
  /\ recorded = [r \in CandidateRefs |-> NoOutcome]
  /\ fileBefore = [state |-> "missing", data |-> <<>>]
FilterIdle ==
  /\ qAll = <<>>
  /\ qStore = <<>>
  /\ qRetry = FALSE
  /\ qOut = FilterAcc(<<>>, 0, 0, 0)
  /\ qPc = "off"
TaskIdle ==
  /\ tFrames = <<>>
  /\ tPc = "off"
  /\ tRet = NoOutcome
  /\ tResult = NoOutcome
  /\ tTrace = <<>>

\* ------------------------------------------------- normalizer on its own
NormInit ==
  /\ nIn \in RefStrings
  /\ nOut = <<>>
  /\ nPc = "input"
  /\ FileIdle
  /\ StoreIdle
  /\ TaskIdle
  /\ FilterIdle
  /\ DispatchIdle

NormalizeRef ==
  /\ nPc = "input"
  /\ nOut' = Normalize(nIn)
  /\ nPc' = "once"
  /\ UNCHANGED <<nIn, fvars, svars, tvars, dvars>>

NormalizeAgain ==
  /\ nPc = "once"
  /\ nOut' = Normalize(nOut)
  /\ nPc' = "twice"
  /\ UNCHANGED <<nIn, fvars, svars, tvars, dvars>>

NormNext == NormalizeRef \/ NormalizeAgain

SpecNorm == NormInit /\ [][NormNext]_vars

\* C7: normalizing an already normalized reference changes nothing,
\* normalize(normalize(r)) = normalize(r) for every reference r.
NormalizeIdempotent == nPc = "twice" => nOut = Normalize(nIn)

\* ------------------------------------------------ result store on its own
\* References and outcomes given to the store on its own: two spellings of
\* one image and a second image, each succeeding or failing.
StoreRefs == {<<"nginx">>, <<"docker", ".io/", "nginx">>, <<"alpine">>}

StoreOutcomes ==
  {Success(r) : r \in StoreRefs}
    \cup {Failure(r, "inspection_failed", {}) : r \in StoreRefs}

NewResultLists == SeqsUpTo(StoreOutcomes, MaxNew) \ {<<>>}

StoreInit ==
  /\ NormIdle
  /\ FileIdle
  /\ StoreIdle
  /\ TaskIdle
  /\ FilterIdle
  /\ DispatchIdle

\* save_results_incremental(new_results, output_file), run to its end.
StoreSave ==
  /\ sSaves < MaxSaves
  /\ \E new \in NewResultLists :
       /\ sPrev' = LoadExisting(fileState, fileData)
       /\ sStore' = MergeResults(LoadExisting(fileState, fileData), new)
       /\ sNew' = new
       /\ fileData' = MergedResults(fileState, fileData, new)
       /\ fileState' = "ok"
  /\ sSaves' = sSaves + 1
  /\ UNCHANGED <<nvars, tvars, dvars>>

\* load_existing_results(output_file)
StoreLoad ==
  /\ sStore' = LoadExisting(fileState, fileData)
  /\ UNCHANGED <<nvars, fvars, tvars, dvars, sPrev, sNew, sSaves>>

StoreNext == StoreSave \/ StoreLoad

SpecStore == StoreInit /\ [][StoreNext]_vars

\* The entries of a serialized store whose reference normalizes to key k.
EntriesForKey(data, k) ==
  {data[i] : i \in {j \in 1..Len(data) : Normalize(data[j].ref) = k}}

\* The outcomes of a merged list that are the last of the list for their key.
LastForKey(new) ==
  {i \in 1..Len(new) :
     \A j \in (i + 1)..Len(new) : Normalize(new[j].ref) # Normalize(new[i].ref)}

\* C6: a Success merged over a stored Failure (and a Failure merged over a
\* stored Success) is afterwards the entry of its key in the store, and the
\* only outcome serialized for that key.
MergeOverwrites ==
  sSaves > 0 =>
    \A i \in LastForKey(sNew) :
      LET o == sNew[i]
          k == Normalize(o.ref)
      IN  (DictHas(sPrev, k) /\ HasError(DictGet(sPrev, k)) # HasError(o)) =>
            /\ DictGet(sStore, k) = o
            /\ EntriesForKey(fileData, k) = {o}

\* The outcomes the in-memory store holds for normalized key k, under any
\* of its keys.
LiveForKey(d, k) ==
  {d[i].v : i \in {j \in 1..Len(d) : Normalize(d[j].v.ref) = k}}

\* C13: after any loads, merges and saves, the store in memory and the
\* serialized store hold, for the key of every outcome merged last, no
\* outcome of another kind than that one (entries that differ in the
\* spelling of the reference only are taken as one).
StoreOnePerKey ==
  sSaves > 0 =>
    \A i \in LastForKey(sNew) :
      LET k == Normalize(sNew[i].ref)
      IN  /\ {o.err : o \in LiveForKey(sStore, k)} = {sNew[i].err}
          /\ {o.err : o \in EntriesForKey(fileData, k)} = {sNew[i].err}

\* C28: loading the file that a save has written gives a store in which the
\* lookup of every reference finds an outcome of the same kind (absent,
\* success or the same failure) as in the store that was saved.
RoundTripLookups ==
  sSaves > 0 =>
    \A r \in StoreRefs :
      Lookup(LoadExisting(fileState, fileData), r).err = Lookup(sStore, r).err

\* C20: the store that load_existing_results returns is empty for a missing
\* and for a malformed file, and for a well-formed file it gives, for every
\* outcome of the file, under the normalized key and under the raw
\* reference of that outcome, an outcome of the same kind.
LoadTolerance ==
  sStore = LoadExisting(fileState, fileData) =>
    IF fileState # "ok" THEN sStore = <<>>
    ELSE \A k \in 1..Len(fileData) :
           LET o == fileData[k]
               byKey == DictGet(sStore, Normalize(o.ref))
               byRaw == DictGet(sStore, o.ref)
           IN  byKey.err = o.err /\ byRaw.err = o.err

\* ----------------------------------------------- resume filter on its own
\* Longest serialized store the filter on its own is given.
MaxFile == 2

\* Stores as load_existing_results builds them from a file.
FilterStores ==
  {LoadExisting("ok", data) : data \in SeqsUpTo(StoreOutcomes, MaxFile)}

FilterInit ==
  /\ NormIdle
  /\ FileIdle
  /\ StoreIdle
  /\ TaskIdle
  /\ DispatchIdle
  /\ qAll \in CandidateLists
  /\ qStore \in FilterStores
  /\ qRetry \in BOOLEAN
  /\ qOut = FilterAcc(<<>>, 0, 0, 0)
  /\ qPc = "input"

\* filter_images_to_inspect(all_images, existing_results, retry_failed)
FilterApply ==
  /\ qPc = "input"
  /\ qOut' = FilterImages(qAll, qStore, qRetry)
  /\ qPc' = "done"
  /\ UNCHANGED <<nvars, fvars, svars, tvars, cands, mvars, pvars, now, hvars,
                 qAll, qStore, qRetry>>

FilterNext == FilterApply

SpecFilter == FilterInit /\ [][FilterNext]_vars

\* The class of candidate i: "ok" (stored Success), "retry" (stored Failure
\* under retry_failed), "failed" (stored Failure otherwise), "new".
FilterClass(i) ==
  LET ex == Lookup(qStore, qAll[i])
  IN  IF ex = NoOutcome THEN "new"
      ELSE IF ~HasError(ex) THEN "ok"
      ELSE IF qRetry THEN "retry" ELSE "failed"

InClass(c) == {i \in 1..Len(qAll) : FilterClass(i) = c}

IsToInspect(ref) ==
  \E i \in InClass("new") \cup InClass("retry") : qAll[i] = ref

\* C14: the filter puts every candidate in exactly one class: stored
\* Success is counted in skippedOk, stored Failure in retrying and in
\* toInspect under retry_failed and in skippedFailed otherwise, an unknown
\* candidate is in toInspect; toInspect keeps the order of the candidates
\* and the three numbers add up to the number of candidates.
ResumeFilterPartition ==
  qPc = "done" =>
    /\ qOut.toInspect = SelectSeq(qAll, IsToInspect)
    /\ qOut.skippedOk = Cardinality(InClass("ok"))
    /\ qOut.skippedFailed = Cardinality(InClass("failed"))
    /\ qOut.retrying = Cardinality(InClass("retry"))
    /\ qOut.skippedOk + qOut.skippedFailed + Len(qOut.toInspect) = Len(qAll)

\* The filter has skipped a stored Failure and kept an unknown candidate.
ResumeFilterWitness ==
  /\ qPc = "done"
  /\ ~qRetry
  /\ qOut.skippedFailed = 1
  /\ Len(qOut.toInspect) = 1
  /\ InClass("new") # {}

\* --------------------------------------------- inspection task on its own
\* What the text of an error message contains.  "rate": one of the rate
\* limit phrases (in any case); "denied", "mnf", "mu", "reading": 'requested
\* access to the resource is denied', 'manifest not found', 'manifest
\* unknown', 'reading manifest' in exactly that case; "MU": 'manifest
\* unknown' in another case; "invalid": 'invalid reference format'.
Messages ==
  {{}, {"rate"}, {"mu"}, {"mnf"}, {"denied"}, {"reading"}, {"MU"},
   {"invalid"}, {"rate", "mu"}}

\* What one subprocess.run of the single-image inspector ends in.
Responses ==
  {[kind |-> k, msg |-> {}] : k \in {"ok", "timeout", "badjson", "exception"}}
    \cup {[kind |-> "failed", msg |-> m] : m \in Messages}

\* References submitted to the task: without and with a namespace.
TaskRefs == {<<"nginx">>, <<"library", "/", "nginx">>}

\* What search_dockerhub_image returns: None (<<>>) or a repository name,
\* with a namespace or (an official image) without one.
SearchAnswers ==
  {<<>>, <<"nginx">>, <<"alpine">>, <<"library", "/", "nginx">>}

\* Mutant of IsRateLimited: a message that says more than the rate limit
\* is not taken for a rate limit.
IsRateLimitedOnly(msg) == msg = {"rate"}

IsRateLimited(msg) == "rate" \in msg

IsNotFoundError(msg) == msg \cap {"denied", "mnf", "mu", "reading"} # {}

\* Mutant of ShouldSearch: any failed inspection is followed by a search.
ShouldSearchAlways(auto, ref, msg) == auto

ShouldSearch(auto, ref, msg) ==
  auto /\ ~HasSlash(ref) /\ IsNotFoundError(msg)

\* Mutant of IsManifestMissing: the message is not lower-cased first.
IsManifestMissingCased(msg) == msg \cap {"mu", "mnf"} # {}

\* 'manifest unknown' in error_msg_lower or 'manifest not found' in ...
IsManifestMissing(msg) == msg \cap {"mu", "mnf", "MU"} # {}

Hint(msg, searched) ==
  IF msg \cap {"denied", "mnf"} # {}
  THEN (IF searched THEN {} ELSE {"hint:namespace"})
  ELSE IF "invalid" \in msg THEN {"hint:format"} ELSE {}

\* The final return of the CalledProcessError handler.
InspectionFailed(ref, msg, searched) ==
  Failure(ref, "inspection_failed", msg \cup Hint(msg, searched))

\* Mutant of UsableAlternate: an answer equal to the original is used too.
UsableAlternateAny(found, ref) == found # <<>>

\* "found_image and found_image != image_ref".
UsableAlternate(found, ref) == found # <<>> /\ found # ref

\* Mutant of AltAutoSearch: the nested call searches too.
AltAutoSearchOn == TRUE

\* auto_search of the nested call on the found image.
AltAutoSearch == FALSE

\* Mutant of AltSuccess: the result keeps the reference it was made with.
AltSuccessKeepRef(ret, ref, found) == [ret EXCEPT !.found = found]

\* result['_original_image_ref'] = image_ref;
\* result['_found_image_ref'] = found_image
AltSuccess(ret, ref, found) == [ret EXCEPT !.ref = ref, !.found = found]

Frame(ref, auto) == [ref |-> ref, auto |-> auto, emsg |-> {}, found |-> <<>>]

Top == tFrames[Len(tFrames)]

SetTop(f) == [tFrames EXCEPT ![Len(tFrames)] = f]

\* return o: to the caller of the task, or to the frame that made the
\* nested call.
TaskReturn(o) ==
  IF Len(tFrames) = 1
  THEN /\ tPc' = "done"
       /\ tResult' = o
       /\ tFrames' = <<>>
       /\ UNCHANGED tRet
  ELSE /\ tPc' = "after"
       /\ tRet' = o
       /\ tFrames' = SubSeq(tFrames, 1, Len(tFrames) - 1)
       /\ UNCHANGED tResult

TaskInit ==
  /\ NormIdle
  /\ FileIdle
  /\ StoreIdle
  /\ FilterIdle
  /\ DispatchIdle
  /\ \E ref \in TaskRefs : tFrames = <<Frame(ref, TRUE)>>
  /\ tPc = "run"
  /\ tRet = NoOutcome
  /\ tResult = NoOutcome
  /\ tTrace = <<>>

\* subprocess.run of the inspector on the frame's reference, and what the
\* handlers make of its end (up to the search call).
TaskInspect ==
  /\ tPc = "run"
  /\ \E resp \in Responses :
       /\ tTrace' = Append(tTrace, [op |-> "inspect", ref |-> Top.ref,
                                     depth |-> Len(tFrames),
                                     kind |-> resp.kind, msg |-> resp.msg,
                                     found |-> <<>>])
       /\ CASE resp.kind = "ok" -> TaskReturn(Success(Top.ref))
            [] resp.kind = "timeout" ->
                 TaskReturn(Failure(Top.ref, "timeout", {}))
            [] resp.kind = "badjson" ->
                 TaskReturn(Failure(Top.ref, "json_parse_failed", {}))
            [] resp.kind = "exception" ->
                 TaskReturn(Failure(Top.ref, "unexpected_error", {}))
            [] resp.kind = "failed" ->
                 IF IsRateLimited(resp.msg)
                 THEN TaskReturn(Failure(Top.ref, "rate_limit", {"rate"}))
                 ELSE IF ShouldSearch(Top.auto, Top.ref, resp.msg)
                 THEN /\ tPc' = "search"
                      /\ tFrames' = SetTop([Top EXCEPT !.emsg = resp.msg])
                      /\ UNCHANGED <<tRet, tResult>>
                 ELSE TaskReturn(InspectionFailed(Top.ref, resp.msg, FALSE))
  /\ UNCHANGED <<nvars, fvars, svars, dvars>>

\* search_dockerhub_image(image_ref), then the nested call or the fall
\* through to the generic failure.
TaskSearch ==
  /\ tPc = "search"
  /\ \E found \in SearchAnswers :
       /\ tTrace' = Append(tTrace, [op |-> "search", ref |-> Top.ref,
                                     depth |-> Len(tFrames),
                                     kind |-> "answer", msg |-> {},
                                     found |-> found])
       /\ IF UsableAlternate(found, Top.ref)
          THEN /\ Len(tFrames) < MaxDepth
               /\ tFrames' = Append(SetTop([Top EXCEPT !.found = found]),
                                    Frame(found, AltAutoSearch))
               /\ tPc' = "run"
               /\ UNCHANGED <<tRet, tResult>>
          ELSE TaskReturn(InspectionFailed(Top.ref, Top.emsg, TRUE))
  /\ UNCHANGED <<nvars, fvars, svars, dvars>>

\* After the nested call returned: success under the original reference,
\* no_latest_tag, or the generic failure with the original error.
TaskAfterAlt ==
  /\ tPc = "after"
  /\ IF ~HasError(tRet)
     THEN TaskReturn(AltSuccess(tRet, Top.ref, Top.found))
     ELSE IF IsManifestMissing(tRet.msg)
     THEN TaskReturn(Outcome(Top.ref, "no_latest_tag", Top.found, {}))
     ELSE TaskReturn(InspectionFailed(Top.ref, Top.emsg, TRUE))
  /\ UNCHANGED <<nvars, fvars, svars, dvars, tTrace>>

TaskNext == TaskInspect \/ TaskSearch \/ TaskAfterAlt

SpecTask == TaskInit /\ [][TaskNext]_vars

SearchCalls == {i \in 1..Len(tTrace) : tTrace[i].op = "search"}

InspectCalls == {i \in 1..Len(tTrace) : tTrace[i].op = "inspect"}

\* C5: the search fallback is invoked at most once for an item, and the
\* inspection of the alternate reference (a nested call) never searches.
AtMostOneFallback ==
  /\ Cardinality(SearchCalls) <= 1
  /\ \A i \in SearchCalls : tTrace[i].depth = 1

\* An item whose first inspection failed not-found, whose search proposed
\* an alternate without a namespace, and whose alternate failed not-found
\* as well: the task is done after one search.
FallbackDoneWitness ==
  /\ tPc = "done"
  /\ Cardinality(SearchCalls) = 1
  /\ Cardinality(InspectCalls) = 2
  /\ tResult.err = "no_latest_tag"
  /\ ~HasSlash(tResult.found)

\* C12: whatever path the task took, the outcome it returns carries the
\* reference the task was submitted with, and that is not the alternate
\* reference found by the search.
OriginalRefCarried ==
  tPc = "done" =>
    /\ tResult.ref = tTrace[1].ref
    /\ tResult.found # <<>> => tResult.found # tResult.ref

\* The task ended in a Success obtained from the alternate found by the
\* search.
FallbackSuccessWitness ==
  /\ tPc = "done"
  /\ ~HasError(tResult)
  /\ tResult.found # <<>>
  /\ Cardinality(InspectCalls) = 2

\* The task was given a reference without a namespace, its inspection
\* failed with 'manifest unknown', the search answered another reference
\* with a namespace, and the inspection of that one succeeded.
FallbackScenario ==
  /\ tPc = "done"
  /\ Len(tTrace) = 3
  /\ ~HasSlash(tTrace[1].ref)
  /\ tTrace[1].kind = "failed" /\ tTrace[1].msg = {"mu"}
  /\ tTrace[2].op = "search"
  /\ tTrace[3].op = "inspect" /\ tTrace[3].kind = "ok"
  /\ HasSlash(tTrace[3].ref)

\* C18: in that scenario the outcome is a Success under the item's own
\* reference that notes the alternate as the found reference; saved
\* together with the Success of another image into a new output file, the
\* file has exactly two entries, both Success.
FallbackSuccessScenario ==
  FallbackScenario =>
    /\ tResult = Outcome(tTrace[1].ref, "none", tTrace[3].ref, {})
    /\ LET saved == MergedResults("missing", <<>>,
                                  <<Success(<<"alpine">>), tResult>>)
       IN  /\ Len(saved) = 2
           /\ \A k \in 1..2 : ~HasError(saved[k])
           /\ {saved[k].ref : k \in 1..2} = {<<"alpine">>, tTrace[1].ref}

\* The scenario has happened, for the reference nginx and the alternate
\* library/nginx.
FallbackScenarioWitness ==
  /\ FallbackScenario
  /\ tTrace[1].ref = <<"nginx">>
  /\ tTrace[3].ref = <<"library", "/", "nginx">>

\* C21: the search is called only right after a failed inspection of a
\* reference without a namespace whose message is of the not-found class
\* and not a rate limit, in the outermost call (where the search is
\* enabled), and when no search was made for the item before; never after a
\* timeout, a rate limit or a parse failure.
SearchGuard ==
  \A i \in SearchCalls :
    /\ i > 1
    /\ tTrace[i - 1].op = "inspect"
    /\ tTrace[i - 1].ref = tTrace[i].ref
    /\ tTrace[i - 1].kind = "failed"
    /\ IsNotFoundError(tTrace[i - 1].msg)
    /\ ~IsRateLimited(tTrace[i - 1].msg)
    /\ ~HasSlash(tTrace[i].ref)
    /\ tTrace[i].depth = 1
    /\ \A j \in SearchCalls : j = i

\* The search was called after an access-denied failure.
SearchGuardWitness ==
  /\ SearchCalls = {2}
  /\ tTrace[1].msg = {"denied"}

\* The inspections of the item's own reference that hit the rate limit.
RateLimitedCalls ==
  {i \in InspectCalls :
     /\ tTrace[i].depth = 1
     /\ tTrace[i].kind = "failed"
     /\ "rate" \in tTrace[i].msg}

FruitlessSearches ==
  {i \in SearchCalls :
     tTrace[i].found = <<>> \/ tTrace[i].found = tTrace[i].ref}

\* C23: a search that returns nothing, or the original reference itself,
\* is the last call made for the item: the item ends at once as the generic
\* failure under the original reference, with the message of the original
\* inspection error.
FruitlessSearch ==
  \A i \in FruitlessSearches :
    /\ i = Len(tTrace)
    /\ tPc = "done"
    /\ tResult.err = "inspection_failed"
    /\ tResult.ref = tTrace[1].ref
    /\ tResult.found = <<>>
    /\ tTrace[i - 1].msg \subseteq tResult.msg

FruitlessSearchWitness ==
  /\ FruitlessSearches = {2}
  /\ tTrace[2].found = tTrace[2].ref
  /\ tResult.err = "inspection_failed"

\* The failed inspections of an alternate reference.
AltFailures ==
  {i \in InspectCalls : tTrace[i].depth = 2 /\ tTrace[i].kind # "ok"}

\* The alternate's failure is an inspection failure (not a rate limit,
\* timeout or parse failure) whose message, in any letter case, says that
\* the manifest is unknown or not found.
AltTagMissing(i) ==
  /\ tTrace[i].kind = "failed"
  /\ ~IsRateLimited(tTrace[i].msg)
  /\ tTrace[i].msg \cap {"mu", "mnf", "MU"} # {}

\* C24: after a failed inspection of the alternate no further call is made
\* for the item, and once the item is done its outcome is no_latest_tag
\* exactly when the alternate's failure says that the manifest or tag is
\* missing, and inspection_failed otherwise.
AltFailureClass ==
  \A i \in AltFailures :
    /\ i = Len(tTrace)
    /\ tPc \in {"after", "done"}
    /\ tPc = "done" =>
         tResult.err = IF AltTagMissing(i) THEN "no_latest_tag"
                       ELSE "inspection_failed"

AltFailureClassWitness ==
  /\ tPc = "done"
  /\ \E i \in AltFailures : AltTagMissing(i) /\ "MU" \in tTrace[i].msg
  /\ tResult.err = "no_latest_tag"

\* C30: at most two inspections are made for an item, the first of its
\* own reference; a second one is the third call of the item, comes right
\* after a search that returned a non-empty answer different from the
\* item's reference, and inspects that answer.
BoundedInspections ==
  /\ Cardinality(InspectCalls) <= 2
  /\ \A i \in InspectCalls :
       IF i = 1 THEN tTrace[i].depth = 1
       ELSE /\ i = 3
            /\ tTrace[2].op = "search"
            /\ tTrace[2].found # <<>>
            /\ tTrace[2].found # tTrace[1].ref
            /\ tTrace[3].ref = tTrace[2].found

BoundedInspectionsWitness ==
  /\ tPc = "done"
  /\ InspectCalls = {1, 3}
  /\ tTrace[3].kind = "failed"
  /\ IsNotFoundError(tTrace[3].msg)
  /\ ~HasSlash(tTrace[3].ref)

\* ------------------------------------------------------- the program run
OtherIdle == NormIdle /\ StoreIdle /\ TaskIdle /\ FilterIdle

ovars == <<nvars, svars, tvars, qvars>>

Running == {i \in 1..Len(task) : task[i].st = "running"}

AllYielded == \A i \in 1..Len(task) : task[i].st = "yielded"

AllFinished == \A i \in 1..Len(task) : task[i].st \in {"finished", "yielded"}

\* The list a checkpoint hands to save_results_incremental.
CheckpointList(res) ==
  IF existing # <<>> THEN DictValues(existing) \o res ELSE res

\* if checkpoint_file and results: the final checkpoint is not conditioned
\* on the time since the last one.
FinalSaveDue == results # <<>>

\* main() up to the submission of the tasks: load (unless --no-resume or no
\* file), filter, return when nothing is left, else submit every image and
\* enter the completion loop.
MainStart ==
  /\ pc = "start"
  /\ LET ex == IF ~cfg.noResume /\ fileState # "missing"
               THEN LoadExisting(fileState, fileData)
               ELSE <<>>
         todo == FilterImages(cands, ex, cfg.retry).toInspect
     IN  /\ existing' = ex
         /\ images' = todo
         /\ task' = [i \in 1..Len(todo) |-> QueuedTask]
         /\ pc' = IF todo = <<>> THEN "done" ELSE "wait"
  /\ results' = <<>>
  /\ doneQueue' = <<>>
  /\ cur' = 0
  /\ lastRequest' = now
  /\ lastCheckpoint' = now
  /\ UNCHANGED <<ovars, fvars, cands, cfg, now, saveData, saveRet, hvars>>

\* A pool thread takes the oldest queued task and starts inspect_oci_image:
\* the inspector's subprocess starts.
TaskStart(i) ==
  /\ pc \notin {"off", "crashed"}
  /\ i \in 1..Len(task)
  /\ task[i].st = "queued"
  /\ \A j \in 1..(i - 1) : task[j].st # "queued"
  /\ Cardinality(Running) < cfg.workers
  /\ task' = [task EXCEPT ![i].st = "running"]
  /\ lastStart' = now
  /\ UNCHANGED <<ovars, fvars, cands, mvars, doneQueue, now, fileOld,
                 recorded, fileBefore>>

\* Mutant of TaskFinish: the pool thread merges its outcome into the output
\* file itself before the future is finished.
TaskFinishSaves(i) ==
  /\ pc \notin {"off", "crashed"}
  /\ i \in 1..Len(task)
  /\ task[i].st = "running"
  /\ \E o \in DispatchOutcomes(images[i]) :
       /\ task' = [task EXCEPT ![i].st = "finished", ![i].res = o,
                               ![i].doneAt = now]
       /\ fileData' = MergedResults(fileState, fileData, <<o>>)
  /\ fileState' = "ok"
  /\ doneQueue' = Append(doneQueue, i)
  /\ UNCHANGED <<ovars, cands, mvars, now, hvars>>

\* inspect_oci_image returns; the future is finished and as_completed will
\* yield it, in finishing order.
TaskFinish(i) ==
  /\ pc \notin {"off", "crashed"}
  /\ i \in 1..Len(task)
  /\ task[i].st = "running"
  /\ \E o \in DispatchOutcomes(images[i]) :
       task' = [task EXCEPT ![i].st = "finished", ![i].res = o,
                            ![i].doneAt = now]
  /\ doneQueue' = Append(doneQueue, i)
  /\ UNCHANGED <<ovars, fvars, cands, mvars, now, hvars>>

\* A pool thread is free while a task is queued.
WorkerFree ==
  /\ \E i \in 1..Len(task) : task[i].st = "queued"
  /\ Cardinality(Running) < cfg.workers

\* Time passes while the main thread waits for a future, sleeps, or waits
\* for the pool to shut down; a free pool thread takes a queued task first.
Tick ==
  /\ ~WorkerFree
  /\ \/ pc = "wait" /\ doneQueue = <<>> /\ ~AllYielded
                    /\ now + TimeStep <= MaxTime
     \/ pc = "sleep" /\ now - lastRequest < cfg.delay
     \/ pc = "shutdown" /\ ~AllFinished /\ now + TimeStep <= MaxTime
  /\ now' = now + TimeStep
  /\ UNCHANGED <<ovars, fvars, cands, mvars, pvars, hvars>>

\* for future in as_completed(...): the next finished future; completed += 1;
\* then the delay between requests.
LoopNext ==
  /\ pc = "wait"
  /\ doneQueue # <<>>
  /\ cur' = Head(doneQueue)
  /\ doneQueue' = Tail(doneQueue)
  /\ task' = [task EXCEPT ![Head(doneQueue)].st = "yielded"]
  /\ IF cfg.delay > 0 /\ now - lastRequest < cfg.delay
     THEN pc' = "sleep" /\ UNCHANGED lastRequest
     ELSE /\ pc' = "result"
          /\ lastRequest' = IF cfg.delay > 0 THEN now ELSE lastRequest
  /\ UNCHANGED <<ovars, fvars, cands, cfg, existing, images, results,
                 lastCheckpoint, saveData, saveRet, now, hvars>>

\* time.sleep(delay_between_requests - time_since_last) returns.
LoopWake ==
  /\ pc = "sleep"
  /\ now - lastRequest >= cfg.delay
  /\ lastRequest' = now
  /\ pc' = "result"
  /\ UNCHANGED <<ovars, fvars, cands, cfg, existing, images, results, cur,
                 lastCheckpoint, saveData, saveRet, pvars, now, hvars>>

\* result = future.result(); results.append(result); the checkpoint test
\* and, when it is due, the start of save_results_incremental (its load
\* and merge).
LoopResult ==
  /\ pc = "result"
  /\ results' = Append(results, task[cur].res)
  /\ IF now - lastCheckpoint >= checkpoint_interval
     THEN /\ saveData' = MergedResults(fileState, fileData,
                                       CheckpointList(results'))
          /\ saveRet' = "ckpt"
          /\ pc' = "save_open"
     ELSE /\ pc' = "wait"
          /\ UNCHANGED <<saveData, saveRet>>
  /\ UNCHANGED <<ovars, fvars, cands, cfg, existing, images, cur,
                 lastRequest, lastCheckpoint, pvars, now, hvars>>

\* The loop ends when every future was yielded: the final checkpoint, when
\* there are results, then the return of inspect_all_images.
LoopEnd ==
  /\ pc = "wait"
  /\ doneQueue = <<>>
  /\ AllYielded
  /\ IF FinalSaveDue
     THEN /\ saveData' = MergedResults(fileState, fileData,
                                       CheckpointList(results))
          /\ saveRet' = "final"
          /\ pc' = "save_open"
     ELSE /\ pc' = "returned"
          /\ UNCHANGED <<saveData, saveRet>>
  /\ UNCHANGED <<ovars, fvars, cands, cfg, existing, images, results, cur,
                 lastRequest, lastCheckpoint, pvars, now, hvars>>

\* main() after inspect_all_images: the final write, of the results alone
\* under --no-resume, else save_results_incremental(results, output).
MainSave ==
  /\ pc = "returned"
  /\ saveData' = IF cfg.noResume THEN results
                 ELSE MergedResults(fileState, fileData, results)
  /\ saveRet' = "main"
  /\ pc' = "save_open"
  /\ UNCHANGED <<ovars, fvars, cands, cfg, existing, images, results, cur,
                 lastRequest, lastCheckpoint, pvars, now, hvars>>

\* open(output_file, 'w'): the file is truncated.
SaveOpen ==
  /\ pc = "save_open"
  /\ fileState' = "writing"
  /\ fileData' = <<>>
  /\ pc' = "save_write"
  /\ UNCHANGED <<ovars, cands, cfg, existing, images, results, cur,
                 lastRequest, lastCheckpoint, saveData, saveRet, pvars, now,
                 hvars>>

\* json.dump: part of the text reaches the file.
SaveFlush ==
  /\ pc = "save_write"
  /\ Len(fileData) + 1 < Len(saveData)
  /\ fileData' = SubSeq(saveData, 1, Len(fileData) + 1)
  /\ UNCHANGED <<ovars, fileState, dvars>>

\* The with block ends: the whole text is in the file.  Control returns to
\* the loop (last_checkpoint_save = time.time()), to the return of
\* inspect_all_images, or to the summary and the end of main().
SaveClose ==
  /\ pc = "save_write"
  /\ fileData' = saveData
  /\ fileState' = "ok"
  /\ fileOld' = [state |-> "ok", data |-> saveData]
  /\ pc' = CASE saveRet = "ckpt" -> "wait"
              [] saveRet = "final" -> "returned"
              [] OTHER -> "done"
  /\ lastCheckpoint' = IF saveRet = "ckpt" THEN now ELSE lastCheckpoint
  /\ UNCHANGED <<ovars, cands, cfg, existing, images, results, cur,
                 lastRequest, saveData, saveRet, pvars, now, lastStart,
                 recorded, fileBefore>>

\* Mutant of SaveFail: an exception of the iteration ends the program.
SaveFailAborts ==
  /\ pc \in {"save_open", "save_write"}
  /\ pc' = "exit1"
  /\ UNCHANGED <<ovars, fvars, cands, cfg, existing, images, results, cur,
                 lastRequest, lastCheckpoint, saveData, saveRet, pvars, now,
                 hvars>>

\* open or write raises (OSError).  In the loop the handler of the
\* iteration catches it and, unless --skip-errors, appends an 'exception'
\* entry for the image; elsewhere it ends the program (exit code 1).
SaveFail ==
  /\ pc \in {"save_open", "save_write"}
  /\ IF saveRet = "ckpt"
     THEN /\ results' = IF cfg.skipErrors THEN results
                        ELSE Append(results,
                                    Failure(images[cur], "exception", {}))
          /\ pc' = "wait"
     ELSE /\ pc' = "exit1"
          /\ UNCHANGED results
  /\ UNCHANGED <<ovars, fvars, cands, cfg, existing, images, cur,
                 lastRequest, lastCheckpoint, saveData, saveRet, pvars, now,
                 hvars>>

\* The process is killed.
Crash ==
  /\ pc \in {"wait", "sleep", "result", "save_open", "save_write",
              "returned"}
  /\ pc' = "crashed"
  /\ UNCHANGED <<ovars, fvars, cands, cfg, existing, images, results, cur,
                 lastRequest, lastCheckpoint, saveData, saveRet, pvars, now,
                 hvars>>

\* KeyboardInterrupt in the main thread inside the with block of the pool:
\* the block's exit waits for the pool (shutdown(wait=True)).
Interrupt ==
  /\ pc \in {"wait", "sleep", "result", "save_open", "save_write"}
  /\ pc \in {"save_open", "save_write"} => saveRet \in {"ckpt", "final"}
  /\ pc' = "shutdown"
  /\ UNCHANGED <<ovars, fvars, cands, cfg, existing, images, results, cur,
                 lastRequest, lastCheckpoint, saveData, saveRet, pvars, now,
                 hvars>>

\* The pool has run every submitted task; the interrupt reaches the handler
\* of __main__: log and sys.exit(130).
InterruptExit ==
  /\ pc = "shutdown"
  /\ AllFinished
  /\ pc' = "exit130"
  /\ UNCHANGED <<ovars, fvars, cands, cfg, existing, images, results, cur,
                 lastRequest, lastCheckpoint, saveData, saveRet, pvars, now,
                 hvars>>

DispatchConfigs ==
  {Config(1, retry, noResume, skip, w, d) :
     retry \in BOOLEAN, noResume \in BOOLEAN, skip \in BOOLEAN,
     w \in 1..MaxWorkers, d \in DelayChoices}

\* The outcome a file's text records last for reference r.
LastRecorded(data, r) ==
  LET at == {i \in 1..Len(data) : data[i].ref = r}
  IN  IF at = {} THEN NoOutcome
      ELSE data[CHOOSE i \in at : \A j \in at : j <= i]

ProgramInit(configs, files) ==
  /\ OtherIdle
  /\ cands \in CandidateLists
  /\ cfg \in configs
  /\ \E f \in files : fileState = f.state /\ fileData = f.data
  /\ pc = "start"
  /\ existing = <<>>
  /\ images = <<>>
  /\ results = <<>>
  /\ task = <<>>
  /\ doneQueue = <<>>
  /\ cur = 0
  /\ now = 0
  /\ lastRequest = 0
  /\ lastCheckpoint = 0
  /\ saveData = <<>>
  /\ saveRet = "none"
  /\ lastStart = NoTime
  /\ fileOld = [state |-> fileState, data |-> fileData]
  /\ recorded = [r \in CandidateRefs |-> LastRecorded(fileData, r)]
  /\ fileBefore = [state |-> fileState, data |-> fileData]

DispatchInit == ProgramInit(DispatchConfigs, InitialFiles)

RunNext ==
  \/ MainStart
  \/ \E i \in 1..MaxItems : TaskStart(i)
  \/ \E i \in 1..MaxItems : TaskFinish(i)
  \/ Tick
  \/ LoopNext
  \/ LoopWake
  \/ LoopResult
  \/ LoopEnd
  \/ MainSave
  \/ SaveOpen
  \/ SaveFlush
  \/ SaveClose

DispatchNext == RunNext \/ SaveFail

\* One run of the program in which a write of the output file may fail.
SpecDispatch == DispatchInit /\ [][DispatchNext]_vars

\* C1: with a delay configured, two starts of the inspection call are never
\* closer to each other than the delay, whatever the number of workers.
RateLimiterFloor ==
  [][\A i \in 1..Len(task) :
       (task[i].st = "queued" /\ task'[i].st = "running") =>
         \/ cfg.delay = 0
         \/ lastStart = NoTime
         \/ now - lastStart >= cfg.delay]_vars

\* The store as the program reads it back from the output file.
PersistedStore == LoadExisting(fileState, fileData)

\* No later entry of res has the normalized key of entry i.
LatestForKey(res, i) ==
  \A j \in (i + 1)..Len(res) :
    Normalize(res[j].ref) # Normalize(res[i].ref)

\* C8: once inspect_all_images has returned, whatever the time since the
\* last checkpoint, the output file is complete and the store read back from
\* it gives, for every item of the run, an outcome of the kind of the one
\* the run appended last for that item.
FinalPersist ==
  (pc \in {"returned", "done"} /\ results # <<>>) =>
    /\ fileState = "ok"
    /\ \A i \in 1..Len(results) :
         LatestForKey(results, i) =>
           Lookup(PersistedStore, results[i].ref).err = results[i].err

\* C11: a failing write of a periodic or final checkpoint does not end the
\* program: the loop goes on, or inspect_all_images returns its results.
SaveFailureIsolated ==
  [][(pc \in {"save_open", "save_write"} /\ saveRet \in {"ckpt", "final"}) =>
       pc' # "exit1"]_vars

\* C15: under --skip-errors the result list holds no failure entry; without
\* it, once inspect_all_images has returned, every image whose inspection
\* failed has an error entry in the list.
SkipErrors ==
  /\ cfg.skipErrors => \A k \in 1..Len(results) : ~HasError(results[k])
  /\ (~cfg.skipErrors /\ pc \in {"returned", "done"}) =>
       \A i \in 1..Len(task) :
         HasError(task[i].res) =>
           \E k \in 1..Len(results) :
             results[k].ref = images[i] /\ HasError(results[k])

ExceptionEntries == {k \in 1..Len(results) : results[k].err = "exception"}

\* C17: an exception while the completion of one image is processed does
\* not end the batch: the program ends only after every submitted image
\* was processed, each processed image has its outcome in the result list,
\* and the exception is an 'exception' entry for the image that was being
\* processed, when failures are recorded.
FailureIsolation ==
  /\ pc = "exit1" => AllYielded
  /\ \A i \in 1..Len(task) :
       task[i].st = "yielded" /\ (i # cur \/ pc \notin {"sleep", "result"}) =>
         \E k \in 1..Len(results) : results[k] = task[i].res
  /\ \A k \in ExceptionEntries :
       /\ ~cfg.skipErrors
       /\ \E i \in 1..Len(images) :
            images[i] = results[k].ref /\ task[i].st = "yielded"

\* A checkpoint save failed while the first of two images was processed;
\* the other image was processed afterwards and inspect_all_images returned.
FailureIsolationWitness ==
  /\ pc = "returned"
  /\ Len(images) = 2
  /\ \E k \in ExceptionEntries :
       /\ k < Len(results)
       /\ results[Len(results)].ref # results[k].ref
       /\ results[Len(results)].err # "exception"

\* C19: under --no-resume every candidate is inspected, and nothing the run
\* writes to the output file (checkpoint or final result) holds an outcome
\* of the file as it was before the run, unless the run produced that very
\* outcome itself.
NoResumeIgnoresFile ==
  (cfg.noResume /\ pc # "start") =>
    /\ images = cands
    /\ \A k \in 1..Len(saveData) :
         (\E j \in 1..Len(fileBefore.data) : fileBefore.data[j] = saveData[k])
           => \E i \in 1..Len(results) : results[i] = saveData[k]

\* C25: a step that adds an outcome to the results when the checkpoint
\* interval has elapsed since the last checkpoint starts a checkpoint save
\* of the stored outcomes and all results so far, whatever the kind of the
\* outcome (an 'exception' entry included); and the time of the last
\* checkpoint changes only in the step that completes such a save.
CheckpointTrigger ==
  [][/\ (results' # results /\ now - lastCheckpoint >= checkpoint_interval)
          => /\ pc' = "save_open"
             /\ saveRet' = "ckpt"
             /\ saveData' = MergedResults(fileState, fileData,
                                          CheckpointList(results'))
     /\ lastCheckpoint' # lastCheckpoint
          => /\ saveRet = "ckpt"
             /\ fileState' = "ok"
             /\ fileData' = saveData]_vars

\* C29: when failures are recorded, the list inspect_all_images returns
\* has as many entries as images were submitted, and the outcome of every
\* submitted image is among them.
OneOutcomePerItem ==
  (pc = "returned" /\ ~cfg.skipErrors) =>
    /\ Len(results) = Len(images)
    /\ \A i \in 1..Len(images) :
         \E k \in 1..Len(results) : results[k] = task[i].res

\* C27: with a delay configured, the step in which a worker starts the
\* inspection of an image is that worker's admission: the time of the last
\* request is then at least the delay in the past (unless this is the first
\* start of the run) and the step sets it to the time of the start.
AdmissionBeforeInspection ==
  [][\A i \in 1..Len(task) :
       (task[i].st = "queued" /\ task'[i].st = "running" /\ cfg.delay > 0) =>
         /\ lastRequest' = now
         /\ lastStart = NoTime \/ now - lastRequest >= cfg.delay]_vars

\* A merge-and-save of the main thread is in progress.
SaveInProgress == pc \in {"save_open", "save_write"}

\* C26: every step that merges results for a save or writes the output file
\* is a step of the main thread (no pool thread starts or finishes a task in
\* it), a merge starts only when no merge-and-save is in progress, and the
\* file is written only by the save in progress; so no two merge-and-save
\* operations overlap, whatever the number of workers and the order in
\* which the tasks finish.
MergeSerialized ==
  [][/\ (saveData' # saveData \/ fileState' # fileState
                               \/ fileData' # fileData)
          => \A i \in 1..Len(task) : task'[i].st = task[i].st
     /\ saveData' # saveData => ~SaveInProgress
     /\ (fileState' # fileState \/ fileData' # fileData)
          => SaveInProgress]_vars

\* A save is being written with two workers while a task that finished at
\* this very time waits to be handled.
MergeSerializedWitness ==
  /\ SaveInProgress
  /\ pc = "save_write"
  /\ cfg.workers = 2
  /\ doneQueue # <<>>
  /\ task[Head(doneQueue)].doneAt = now
  /\ results # <<>>

CrashNext == RunNext \/ Crash

\* One run of the program that may be killed at any moment.
SpecCrash == DispatchInit /\ [][CrashNext]_vars

InterruptNext == RunNext \/ Interrupt \/ InterruptExit

\* One run of the program that the operator may interrupt.
SpecInterrupt == DispatchInit /\ [][InterruptNext]_vars

\* Image i is the only one of the run with its normalized key.
SoleKey(i) ==
  \A j \in 1..Len(images) :
    j # i => Normalize(images[j]) # Normalize(images[i])

Completed == {i \in 1..Len(task) : task[i].st \in {"finished", "yielded"}}

\* The output file is complete and holds outcome o.
InFile(o) ==
  /\ fileState = "ok"
  /\ \E k \in 1..Len(fileData) : fileData[k] = o

\* C2: when the process is killed, outside a write of the file, every
\* outcome that completed more than one checkpoint interval before is in
\* the output file.
CheckpointDurable ==
  (pc = "crashed" /\ fileState # "writing") =>
    \A i \in Completed :
      (SoleKey(i) /\ now - task[i].doneAt > checkpoint_interval) =>
        InFile(task[i].res)

\* C3: when the process is killed and the output file held a complete
\* document before, the file holds that document or the complete document
\* of the save that was under way.
AtomicSave ==
  (pc = "crashed" /\ fileOld.state = "ok") =>
    /\ fileState = "ok"
    /\ fileData = fileOld.data \/ fileData = saveData

\* C9: after an interrupt no queued task is started, and when the program
\* exits on the interrupt every outcome completed so far is in the output
\* file.
Cancellation ==
  /\ [][pc = "shutdown" =>
          \A i \in 1..Len(task) :
            task[i].st = "queued" => task'[i].st = "queued"]_vars
  /\ [](pc = "exit130" =>
          \A i \in Completed : SoleKey(i) => InFile(task[i].res))

\* Runs without faults, for every number of workers and every delay.
LiveConfigs ==
  {Config(1, TRUE, FALSE, FALSE, w, d) :
     w \in 1..MaxWorkers, d \in DelayChoices}

LiveInit == ProgramInit(LiveConfigs, InitialFiles)

\* One run of the program in which every thread that can take a step
\* eventually takes one: every inspection call returns, every sleep ends,
\* every write completes.
SpecLive == LiveInit /\ [][RunNext]_vars /\ WF_vars(RunNext)

\* C16: the run comes to its end, and the main thread never sleeps once
\* every submitted image has its outcome.
DispatcherTermination ==
  /\ <>(pc = "done")
  /\ [](AllFinished => pc # "sleep")

\* --------------------------------------------------- one run after another
\* Runs that resume from the output file, with or without --retry-failed.
RunsConfigs ==
  {Config(1, retry, FALSE, FALSE, w, d) :
     retry \in BOOLEAN, w \in 1..MaxWorkers, d \in DelayChoices}

RunsInit == ProgramInit(RunsConfigs, InitialFiles)

\* The outcome the finished run produced for reference r, if it inspected r.
ProducedFor(r) ==
  LET at == {i \in 1..Len(images) : images[i] = r}
  IN  IF at = {} THEN recorded[r] ELSE task[CHOOSE i \in at : TRUE].res

\* The program is started again on the same document, after a run that
\* ended normally: a new process, with the flags of its command line.
NextRun ==
  /\ pc = "done"
  /\ cfg.no < MaxRuns
  /\ \E c \in RunsConfigs : cfg' = [c EXCEPT !.no = cfg.no + 1]
  /\ pc' = "start"
  /\ existing' = <<>>
  /\ images' = <<>>
  /\ results' = <<>>
  /\ task' = <<>>
  /\ doneQueue' = <<>>
  /\ cur' = 0
  /\ now' = 0
  /\ lastRequest' = 0
  /\ lastCheckpoint' = 0
  /\ saveData' = <<>>
  /\ saveRet' = "none"
  /\ lastStart' = NoTime
  /\ UNCHANGED fileOld
  /\ recorded' = [r \in CandidateRefs |-> ProducedFor(r)]
  /\ fileBefore' = [state |-> fileState, data |-> fileData]
  /\ UNCHANGED <<ovars, fvars, cands>>

RunsNext == RunNext \/ NextRun

\* Runs of the program one after the other, each ending normally.
SpecRuns == RunsInit /\ [][RunsNext]_vars

\* C4: a run with resume enabled and without --retry-failed that follows a
\* run on the same candidates inspects nothing and leaves the output file as
\* the run before left it.
ResumeConvergence ==
  (cfg.no >= 2 /\ ~cfg.retry /\ pc # "start") =>
    /\ images = <<>>
    /\ lastStart = NoTime
    /\ fileState = fileBefore.state
    /\ fileData = fileBefore.data

\* A second run without --retry-failed has ended, after a first run that
\* inspected two references and left a failure and a success in the file.
ResumeConvergenceWitness ==
  /\ cfg.no = 2
  /\ ~cfg.retry
  /\ pc = "done"
  /\ Len(cands) = 2
  /\ \E r \in CandidateRefs : recorded[r] # NoOutcome /\ HasError(recorded[r])
  /\ \E r \in CandidateRefs : recorded[r] = Success(r)
  /\ fileState = "ok"

\* C10: over runs with resume enabled, a reference whose most recently
\* recorded outcome is a Success is not inspected again, and one whose most
\* recently recorded outcome is a Failure only under --retry-failed.
StrictConvergence ==
  \A i \in 1..Len(images) :
    LET last == recorded[images[i]]
    IN  \/ last = NoOutcome
        \/ HasError(last) /\ cfg.retry

====
